---- MODULE Spec2Model ----
(***************************************************************************)
(* Model of src/main.py (lebotmusicien): the per-guild MusicPlayer, its    *)
(* player_loop, the Music cog's registry and the commands acting on it.    *)
(* One guild is modelled.  Every action is one run of a coroutine between  *)
(* two suspension points (await) of the asyncio event loop, or one step of *)
(* the voice transport's audio thread.                                     *)
(*                                                                         *)
(* The voice transport (discord.py VoiceClient / AudioPlayer), the         *)
(* resolver (youtube_dl) and the text channel are collaborators: their     *)
(* outcomes (success, exception) are nondeterministic choices.             *)
(*                                                                         *)
(* Abstractions: one guild and one voice channel (connect_ never moves);   *)
(* the bot is ready and not closing; the 300 s of timeout(300) are not     *)
(* counted, the timeout may fire whenever the loop is suspended in         *)
(* queue.get() on an empty queue; volumes are halves of a percent.         *)
(* Commands that only reply (no connection, nothing playing) are steps     *)
(* that change nothing.  `hist` is a history variable: it records what     *)
(* happened and no action reads it to decide what the program does.        *)
(***************************************************************************)
EXTENDS Integers, Sequences, FiniteSets, TLC

\* ---------------------------------------------------------------- bounds
\* number of play commands issued in the guild (item h is made by command h)
MaxPlays == 2
\* number of MusicPlayer instances that may be constructed
MaxPlayers == 2
\* number of volume / increase / decrease commands
MaxVolCmds == 1
\* number of stop commands
MaxStops == 1
\* number of nowplaying commands that get past their checks
MaxNowPlaying == 1
\* number of connect commands that start a connection
MaxConnects == 1
\* number of queue commands that list the queue
MaxQueries == 1
\* number of play commands in the runs with every command
CmdPlays == 1
\* number of entries put on the queue in the runs of the queue command
MaxQueued == 7
\* the number of entries the queue command shows
QueueWindow == 5

\* ------------------------------------------------------ program constants
\* self.volume = .5, in percent
InitVolume == 50
\* player.volume += 0.05, in percent
VolumeStep == 5
\* if not 0 < vol < 101
VolumeLimit == 101

Items == 1..MaxPlays
Players == 1..MaxPlayers
\* players.get(guild.id) is absent / a reference that is None
NoPlayer == 0
NoItem == 0
\* history: no volume command has fixed the volume
NoVolume == {}
CmdItems == 1..CmdPlays
QueueItems == 1..MaxQueued
\* vol is a float: the model keeps volumes in halves of a percent
PerCent == 2

Pct(n) == n * PerCent

\* values a user passes to the volume command: 0 %, 70 %, 100 %, 100.5 %
VolChoices == {0, Pct(70), Pct(100), Pct(100) + 1}

Max(a, b) == IF a >= b THEN a ELSE b

VARIABLES
  players,    \* Music.players[guild.id]: NoPlayer or the registered player
  nPlayers,   \* number of MusicPlayer objects constructed so far
  mp,         \* the MusicPlayer objects: queue, next, current, np, volume,
              \* and the position (pc) and local `source` of player_loop
  vcState,    \* guild.voice_client: "none" | "connecting" | "connected" | "closing"
  vcPlayer,   \* voice_client._player: the stream handed to play(), or NoItem
  stream,     \* per resolved item: the YTDLSource (st, vol, owner, released)
  hpc,        \* position of each play_ command handler
  hplayer,    \* local `player` of each play_ command handler
  task,       \* the cleanup task made by destroy() of each player
  nVol,       \* volume / increase / decrease commands that took effect
  nStop,      \* stop commands that took effect
  msgs,       \* the now-playing messages in the channel: <<message, player>>
  npc,        \* the now_playing_ command handler: position, player, vc
  nNp,        \* nowplaying commands that got past their checks
  cpc,        \* position of the connect_ command handler
  nConn,      \* connect commands that started a connection
  nQuery,     \* queue commands that listed the queue
  hist        \* history: what was put, started, failed, discarded, issued

\* the state of the command handlers the player loop never touches
cmdvars == <<npc, nNp, cpc, nConn, nQuery>>

vars == <<players, nPlayers, mp, vcState, vcPlayer, stream, hpc, hplayer,
          task, nVol, nStop, msgs, npc, nNp, cpc, nConn, nQuery, hist>>

\* ------------------------------------------------------------ MusicPlayer
\* a slot in which no MusicPlayer has been constructed yet
Unborn == [queue |-> <<>>, next |-> FALSE, current |-> NoItem, np |-> NoItem,
           volume |-> 0, pc |-> "none", source |-> NoItem]

\* MusicPlayer.__init__: empty queue, cleared event, np None, volume .5,
\* current None, and the player_loop task created (it runs later)
MusicPlayer == [queue |-> <<>>, next |-> FALSE, current |-> NoItem, np |-> NoItem,
                volume |-> Pct(InitVolume), pc |-> "start", source |-> NoItem]

NoStream == [st |-> "none", vol |-> 0, owner |-> NoPlayer, released |-> FALSE]

\* the now_playing_ handler when no nowplaying command is running
NoCommand == [pc |-> "idle", player |-> NoPlayer, vc |-> FALSE]

\* the history before anything happened
NoHistory ==
  [put |-> [p \in Players |-> <<>>],
   started |-> [p \in Players |-> <<>>],
   failed |-> {},
   resolved |-> {},
   discarded |-> {},
   issued |-> {},
   epoch |-> 0,
   stopMid |-> FALSE,
   skipped |-> {},
   lastSet |-> [p \in Players |-> NoVolume],
   liveSet |-> [i \in Items |-> NoVolume],
   destroyed |-> {},
   wrecked |-> {},
   calls |-> [i \in Items |-> 0],
   refused |-> FALSE,
   listed |-> <<>>,
   got |-> <<>>]

Init ==
  /\ players = NoPlayer
  /\ nPlayers = 0
  /\ mp = [p \in Players |-> Unborn]
  /\ vcState = "none"
  /\ vcPlayer = NoItem
  /\ stream = [i \in Items |-> NoStream]
  /\ hpc = [h \in Items |-> "idle"]
  /\ hplayer = [h \in Items |-> NoPlayer]
  /\ task = [p \in Players |-> "none"]
  /\ nVol = 0
  /\ nStop = 0
  /\ msgs = {}
  /\ npc = NoCommand
  /\ nNp = 0
  /\ cpc = "idle"
  /\ nConn = 0
  /\ nQuery = 0
  /\ hist = NoHistory

Range(q) == {q[k] : k \in 1..Len(q)}

\* ------------------------------------------------------- asyncio.Queue
\* mutant: the item is put at the head
QueuePutFront(q, x) == <<x>> \o q

\* queue.put(item): put_nowait appends at the tail (the queue is unbounded)
QueuePut(q, x) == Append(q, x)

\* queue.get(): the item get_nowait pops from the left
QueueGet(q) == Head(q)

\* mutant: get leaves the item on the queue
QueueKeep(q) == q

\* the queue left behind by queue.get()
QueueRest(q) == Tail(q)

\* --------------------------------------------------- the voice transport
\* mutant: any voice client counts, connected or not
HasVoiceClient == vcState # "none"

\* VoiceClient.is_connected(); also the `not vc or not vc.is_connected()`
\* test every command but play and pause starts with
is_connected == vcState = "connected"

\* VoiceClient.is_playing(): there is an AudioPlayer and it is not paused or ended
is_playing == vcPlayer # NoItem /\ stream[vcPlayer].st = "playing"

\* VoiceClient.is_paused()
is_paused == vcPlayer # NoItem /\ stream[vcPlayer].st = "paused"

\* VoiceClient.stop(): the AudioPlayer is told to end and is forgotten; its
\* thread runs the `after` callback later (AudioThreadExit)
VcStopStream ==
  IF vcPlayer # NoItem /\ stream[vcPlayer].st \in {"playing", "paused"}
  THEN [stream EXCEPT ![vcPlayer].st = "ended"]
  ELSE stream

\* PCMVolumeTransformer.volume setter: max(value, 0.0)
SourceVolume(v) == Max(v, 0)

\* ---------------------------------------------------- the text channel
\* channel.send returned message `id`, posted for player p
PostMsg(ms, id, p) == ms \cup {<<id, p>>}

\* message.delete(): the message goes (NotFound is swallowed by the callers)
DeleteMsg(ms, id) == {m \in ms : m[1] # id}

\* ------------------------------------------------------ Music.get_player
\* mutant: the lookup is skipped and a player is always constructed
GetPlayerMiss(reg) == FALSE

\* try: player = self.players[ctx.guild.id]  -- TRUE when no KeyError
GetPlayerHit(reg) == reg # NoPlayer

\* the player get_player returns: the registered one, else a new MusicPlayer
get_player == IF GetPlayerHit(players) THEN players ELSE nPlayers + 1

\* the construction bound: a new MusicPlayer is still available
CanGetPlayer == GetPlayerHit(players) \/ nPlayers < MaxPlayers

\* the MusicPlayer objects after get_player
MpAfterGet == IF GetPlayerHit(players) THEN mp
              ELSE [mp EXCEPT ![nPlayers + 1] = MusicPlayer]

NPlayersAfterGet == IF GetPlayerHit(players) THEN nPlayers ELSE nPlayers + 1

\* history: get_player handed out player p while the registry was in this epoch
Issued(h, p) == [h EXCEPT !.issued = @ \cup {<<h.epoch, p>>}]

\* -------------------------------------------------------- Music.cleanup
\* mutant: the registry entry is left in place
KeepPlayers(reg) == reg

\* del self.players[guild.id] (KeyError swallowed)
DelPlayers(reg) == NoPlayer

\* history: the items left in the queue of the player the registry loses
Discard(h) ==
  IF players # NoPlayer
  THEN [h EXCEPT !.discarded = @ \cup Range(mp[players].queue), !.epoch = @ + 1,
                 !.destroyed = @ \cup {players}]
  ELSE h

\* history: the destroy task of player p, a player the registry had already
\* lost, disconnects the voice client or deletes the registry entry of `players`
Wreck(h, p) ==
  IF p \in h.destroyed /\ (is_connected \/ players # NoPlayer)
  THEN [h EXCEPT !.wrecked = @ \cup {<<p, players>>}]
  ELSE h

\* cleanup(guild) up to its first suspension, run by stop_ or by a player's
\* destroy task.  voice_client None (AttributeError) or not
\* connected (disconnect returns at once): the registry entry is deleted in
\* the same step.  Otherwise disconnect() stops the stream, clears the
\* connected flag and suspends on the gateway; cleanupFinish continues.
\* The VoiceClient a suspended nowplaying command holds is then a dead one.
cleanup(h) ==
  IF is_connected
  THEN /\ stream' = VcStopStream
       /\ vcPlayer' = NoItem
       /\ vcState' = "closing"
       /\ npc' = [npc EXCEPT !.vc = FALSE]
       /\ hist' = h
       /\ UNCHANGED players
  ELSE /\ players' = DelPlayers(players)
       /\ hist' = Discard(h)
       /\ UNCHANGED <<stream, vcPlayer, vcState, npc>>

\* the rest of cleanup after disconnect() resumed: the voice client is
\* removed from the guild and the registry entry is deleted
cleanupFinish ==
  /\ vcState = "closing"
  /\ vcState' = "none"
  /\ players' = DelPlayers(players)
  /\ hist' = Discard(hist)
  /\ task' = [p \in Players |-> IF task[p] = "closing" THEN "done" ELSE task[p]]
  /\ UNCHANGED <<nPlayers, mp, vcPlayer, stream, hpc, hplayer, nVol, nStop>>
  /\ UNCHANGED <<msgs, cmdvars>>

\* the task made by MusicPlayer.destroy starts running cleanup
destroyTask(p) ==
  /\ task[p] = "pending"
  /\ cleanup(Wreck(hist, p))
  /\ task' = [task EXCEPT ![p] = IF is_connected THEN "closing" ELSE "done"]
  /\ UNCHANGED <<nPlayers, mp, hpc, hplayer, nVol, nStop>>
  /\ UNCHANGED <<msgs, nNp, cpc, nConn, nQuery>>

\* ------------------------------------------------- MusicPlayer.player_loop
\* mutant: the loop goes round without next.clear()
LoopTopNoClear(m) ==
  IF m.queue # <<>>
  THEN [m EXCEPT !.source = QueueGet(m.queue),
                 !.queue = QueueRest(m.queue), !.pc = "resolving"]
  ELSE [m EXCEPT !.pc = "get"]

\* top of the while loop: next.clear(), then queue.get() under timeout(300).
\* A non-empty queue is served without suspending; else the loop suspends.
LoopTop(m) ==
  IF m.queue # <<>>
  THEN [m EXCEPT !.next = FALSE, !.source = QueueGet(m.queue),
                 !.queue = QueueRest(m.queue), !.pc = "resolving"]
  ELSE [m EXCEPT !.next = FALSE, !.pc = "get"]

\* history: regather_stream was called for the item just dequeued
Resolving(h, m) ==
  IF m.pc = "resolving"
  THEN [h EXCEPT !.resolved = @ \cup {m.source}, !.calls[m.source] = @ + 1]
  ELSE h

\* the task created in __init__ starts: wait_until_ready, first iteration
loopStart(p) ==
  /\ mp[p].pc = "start"
  /\ mp' = [mp EXCEPT ![p] = LoopTop(@)]
  /\ hist' = Resolving(hist, mp'[p])
  /\ UNCHANGED <<players, nPlayers, vcState, vcPlayer, stream, hpc, hplayer,
                 task, nVol, nStop>>
  /\ UNCHANGED <<msgs, cmdvars>>

\* queue.get() resumes because an item was put
loopGet(p) ==
  /\ mp[p].pc = "get"
  /\ mp[p].queue # <<>>
  /\ mp' = [mp EXCEPT ![p].source = QueueGet(mp[p].queue),
                      ![p].queue = QueueRest(mp[p].queue),
                      ![p].pc = "resolving"]
  /\ hist' = Resolving(hist, mp'[p])
  /\ UNCHANGED <<players, nPlayers, vcState, vcPlayer, stream, hpc, hplayer,
                 task, nVol, nStop>>
  /\ UNCHANGED <<msgs, cmdvars>>

\* mutant: the loop goes round after the timeout
AfterTimeoutLoops == "get"

\* the position of the loop after the inactivity timeout: return
AfterTimeout == "done"

\* asyncio.TimeoutError: the queue stayed empty for 300 s;
\* return self.destroy(self._guild) creates the cleanup task
loopTimeout(p) ==
  /\ mp[p].pc = "get"
  /\ mp[p].queue = <<>>
  /\ mp' = [mp EXCEPT ![p].pc = AfterTimeout]
  /\ task' = [task EXCEPT ![p] = "pending"]
  /\ UNCHANGED <<players, nPlayers, vcState, vcPlayer, stream, hpc, hplayer,
                 nVol, nStop, hist>>
  /\ UNCHANGED <<msgs, cmdvars>>

\* voice_client.play(source, after=...) raises: voice_client is None
\* (AttributeError), not connected, or already playing (ClientException)
PlayRaises == vcState # "connected" \/ is_playing

\* mutant: a resolved source keeps the default volume
StartVolumeDefault(m) == SourceVolume(Pct(InitVolume))

\* the volume a resolved source starts with: source.volume = self.volume
StartVolume(m) == SourceVolume(m.volume)

\* mutant: the player does not record the source it is about to play
KeepCurrent(m, i) == m

\* self.current = source
SetCurrent(m, i) == [m EXCEPT !.current = i]

\* regather_stream returned: lines 148-152 up to the await of channel.send
loopResolved(p) ==
  /\ mp[p].pc = "resolving"
  /\ LET i == mp[p].source IN
     /\ IF PlayRaises
        THEN /\ mp' = [mp EXCEPT ![p] = [SetCurrent(@, i) EXCEPT !.pc = "dead"]]
             /\ stream' = [stream EXCEPT ![i] =
                  [st |-> "idle", vol |-> StartVolume(mp[p]), owner |-> p,
                   released |-> FALSE]]
             /\ UNCHANGED <<vcPlayer, hist>>
        ELSE /\ mp' = [mp EXCEPT ![p] = [SetCurrent(@, i) EXCEPT !.pc = "npsend"]]
             /\ stream' = [stream EXCEPT ![i] =
                  [st |-> "playing", vol |-> StartVolume(mp[p]), owner |-> p,
                   released |-> FALSE]]
             /\ vcPlayer' = i
             /\ hist' = [hist EXCEPT !.started[p] = Append(@, i),
                                     !.liveSet[i] = hist.lastSet[p]]
  /\ UNCHANGED <<players, nPlayers, vcState, hpc, hplayer, task,
                 nVol, nStop>>
  /\ UNCHANGED <<msgs, cmdvars>>

\* regather_stream raised: the except branch awaits channel.send(error)
loopResolveFailed(p) ==
  /\ mp[p].pc = "resolving"
  /\ mp' = [mp EXCEPT ![p].pc = "reporting"]
  /\ hist' = [hist EXCEPT !.failed = @ \cup {mp[p].source}]
  /\ UNCHANGED <<players, nPlayers, vcState, vcPlayer, stream, hpc, hplayer,
                 task, nVol, nStop>>
  /\ UNCHANGED <<msgs, cmdvars>>

\* the error report was sent (continue), or channel.send raised
\* discord.HTTPException, which nothing in player_loop catches there
loopReported(p, ok) ==
  /\ mp[p].pc = "reporting"
  /\ mp' = [mp EXCEPT ![p] = IF ok THEN LoopTop(@) ELSE [@ EXCEPT !.pc = "dead"]]
  /\ hist' = Resolving(hist, mp'[p])
  /\ UNCHANGED <<players, nPlayers, vcState, vcPlayer, stream, hpc, hplayer,
                 task, nVol, nStop>>
  /\ UNCHANGED <<msgs, cmdvars>>

\* lines 156-162 up to the await of np.delete(): source.cleanup(),
\* self.current = None; the message self.np names at that moment is deleted
AfterWait(m) == [m EXCEPT !.current = NoItem, !.pc = "npdel"]

\* the now-playing message was sent: self.np is set and next.wait() is
\* entered (it returns without suspending when next is already set);
\* or channel.send raised, which ends the task
loopNpSent(p, ok) ==
  /\ mp[p].pc = "npsend"
  /\ LET i == mp[p].source
         m == [mp[p] EXCEPT !.np = i] IN
     IF ~ok
     THEN /\ mp' = [mp EXCEPT ![p].pc = "dead"]
          /\ UNCHANGED <<stream, msgs>>
     ELSE IF m.next
     THEN /\ mp' = [mp EXCEPT ![p] = AfterWait(m)]
          /\ stream' = [stream EXCEPT ![i].released = TRUE]
          /\ msgs' = DeleteMsg(PostMsg(msgs, i, p), m.np)
     ELSE /\ mp' = [mp EXCEPT ![p] = [m EXCEPT !.pc = "wait"]]
          /\ msgs' = PostMsg(msgs, i, p)
          /\ UNCHANGED stream
  /\ UNCHANGED <<players, nPlayers, vcState, vcPlayer, hpc, hplayer, task,
                 nVol, nStop, hist>>
  /\ UNCHANGED cmdvars

\* next.wait() resumes after next.set()
loopWake(p) ==
  /\ mp[p].pc = "wait"
  /\ mp[p].next
  /\ mp' = [mp EXCEPT ![p] = AfterWait(@)]
  /\ stream' = [stream EXCEPT ![mp[p].source].released = TRUE]
  /\ msgs' = DeleteMsg(msgs, mp[p].np)
  /\ UNCHANGED <<players, nPlayers, vcState, vcPlayer, hpc, hplayer, task,
                 nVol, nStop, hist>>
  /\ UNCHANGED cmdvars

\* np.delete() returned or raised discord.HTTPException (swallowed): the
\* loop goes round
loopNpDeleted(p) ==
  /\ mp[p].pc = "npdel"
  /\ mp' = [mp EXCEPT ![p] = LoopTop(@)]
  /\ hist' = Resolving(hist, mp'[p])
  /\ UNCHANGED <<players, nPlayers, vcState, vcPlayer, stream, hpc, hplayer,
                 task, nVol, nStop>>
  /\ UNCHANGED <<msgs, cmdvars>>

\* ------------------------------------------------ the AudioPlayer thread
\* the source is exhausted: the thread stops itself
streamEnds(i) ==
  /\ stream[i].st = "playing"
  /\ stream' = [stream EXCEPT ![i].st = "ended"]
  /\ UNCHANGED <<players, nPlayers, mp, vcState, vcPlayer, hpc, hplayer,
                 task, nVol, nStop, hist>>
  /\ UNCHANGED <<msgs, cmdvars>>

\* the thread leaves run(): source.cleanup(), then the `after` callback,
\* whose call_soon_threadsafe(self.next.set) sets the event of the player
\* that called play()
audioThreadExit(i) ==
  /\ stream[i].st = "ended"
  /\ stream' = [stream EXCEPT ![i].st = "finished", ![i].released = TRUE]
  /\ mp' = [mp EXCEPT ![stream[i].owner].next = TRUE]
  /\ UNCHANGED <<players, nPlayers, vcState, vcPlayer, hpc, hplayer, task,
                 nVol, nStop, hist>>
  /\ UNCHANGED <<msgs, cmdvars>>

\* ------------------------------------------------------------ Music.play_
\* player = self.get_player(ctx), then create_source suspends in the executor
playGetPlayer(h) ==
  /\ CanGetPlayer
  /\ players' = get_player
  /\ nPlayers' = NPlayersAfterGet
  /\ mp' = MpAfterGet
  /\ hplayer' = [hplayer EXCEPT ![h] = get_player]
  /\ hist' = Issued(hist, get_player)
  /\ hpc' = [hpc EXCEPT ![h] = "creating"]

\* the command starts (after trigger_typing): with a voice client it goes on
\* to get_player; without one it invokes connect_, which replies when the
\* author is in no voice channel, else starts channel.connect()
play_(h, inVoice) ==
  /\ hpc[h] = "idle"
  /\ IF vcState # "none"
     THEN /\ playGetPlayer(h)
          /\ UNCHANGED vcState
     ELSE /\ hpc' = [hpc EXCEPT ![h] = IF inVoice THEN "connecting" ELSE "nochannel"]
          /\ vcState' = IF inVoice THEN "connecting" ELSE vcState
          /\ UNCHANGED <<players, nPlayers, mp, hplayer, hist>>
  /\ UNCHANGED <<vcPlayer, stream, task, nVol, nStop>>
  /\ UNCHANGED <<msgs, cmdvars>>

\* connect_ sent "You are not connected to a voice channel" and returned, or
\* the send raised and the command ends
playNoChannel(h, ok) ==
  /\ hpc[h] = "nochannel"
  /\ IF ok
     THEN playGetPlayer(h)
     ELSE /\ hpc' = [hpc EXCEPT ![h] = "failed"]
          /\ UNCHANGED <<players, nPlayers, mp, hplayer, hist>>
  /\ UNCHANGED <<vcState, vcPlayer, stream, task, nVol, nStop>>
  /\ UNCHANGED <<msgs, cmdvars>>

\* channel.connect() returned, and connect_ awaits the "Connected to" send;
\* or it timed out: the voice client is dropped and VoiceConnectionError ends
\* the command
playConnected(h, ok) ==
  /\ hpc[h] = "connecting"
  /\ vcState' = IF ok THEN "connected" ELSE "none"
  /\ hpc' = [hpc EXCEPT ![h] = IF ok THEN "greeting" ELSE "failed"]
  /\ UNCHANGED <<players, nPlayers, mp, vcPlayer, stream, hplayer, task,
                 nVol, nStop, hist>>
  /\ UNCHANGED <<msgs, cmdvars>>

\* the "Connected to" message was sent and connect_ returned, or the send
\* raised and the command ends
playGreeted(h, ok) ==
  /\ hpc[h] = "greeting"
  /\ IF ok
     THEN playGetPlayer(h)
     ELSE /\ hpc' = [hpc EXCEPT ![h] = "failed"]
          /\ UNCHANGED <<players, nPlayers, mp, hplayer, hist>>
  /\ UNCHANGED <<vcState, vcPlayer, stream, task, nVol, nStop>>
  /\ UNCHANGED <<msgs, cmdvars>>

\* create_source returned the unresolved dict and it is put on the queue of
\* the player obtained earlier; or extract_info / the "Added" send raised
playCreated(h, ok) ==
  /\ hpc[h] = "creating"
  /\ hpc' = [hpc EXCEPT ![h] = IF ok THEN "done" ELSE "failed"]
  /\ mp' = IF ok THEN [mp EXCEPT ![hplayer[h]].queue = QueuePut(@, h)] ELSE mp
  /\ hist' = IF ok THEN [hist EXCEPT !.put[hplayer[h]] = Append(@, h)] ELSE hist
  /\ UNCHANGED <<players, nPlayers, vcState, vcPlayer, stream, hplayer, task,
                 nVol, nStop>>
  /\ UNCHANGED <<msgs, cmdvars>>

\* ------------------------------------------------------- other commands
\* pause: replies unless a stream is playing, else vc.pause()
pause_ ==
  /\ stream' = IF vcState # "none" /\ is_playing
               THEN [stream EXCEPT ![vcPlayer].st = "paused"]
               ELSE stream
  /\ UNCHANGED <<players, nPlayers, mp, vcState, vcPlayer, hpc, hplayer,
                 task, nVol, nStop, hist>>
  /\ UNCHANGED <<msgs, cmdvars>>

\* resume: replies unless connected, returns unless paused, else vc.resume()
resume_ ==
  /\ stream' = IF is_connected /\ is_paused
               THEN [stream EXCEPT ![vcPlayer].st = "playing"]
               ELSE stream
  /\ UNCHANGED <<players, nPlayers, mp, vcState, vcPlayer, hpc, hplayer,
                 task, nVol, nStop, hist>>
  /\ UNCHANGED <<msgs, cmdvars>>

\* skip: replies unless connected; returns when neither paused nor playing;
\* else vc.stop()
skip_ ==
  /\ IF is_connected /\ (is_paused \/ is_playing)
     THEN /\ stream' = VcStopStream
          /\ vcPlayer' = NoItem
          /\ hist' = [hist EXCEPT !.skipped = @ \cup {vcPlayer}]
     ELSE UNCHANGED <<stream, vcPlayer, hist>>
  /\ UNCHANGED <<players, nPlayers, mp, vcState, hpc, hplayer, task,
                 nVol, nStop>>
  /\ UNCHANGED <<msgs, cmdvars>>

\* stop: replies unless connected, else awaits cleanup(ctx.guild)
stop_ ==
  /\ nStop < MaxStops
  /\ IF is_connected
     THEN /\ nStop' = nStop + 1
          /\ cleanup([hist EXCEPT !.stopMid = @ \/ is_playing \/ is_paused])
     ELSE UNCHANGED <<nStop, players, hist, stream, vcPlayer, vcState, npc>>
  /\ UNCHANGED <<nPlayers, mp, hpc, hplayer, task, nVol>>
  /\ UNCHANGED <<msgs, nNp, cpc, nConn, nQuery>>

\* vol is accepted by `if not 0 < vol < 101`
VolumeAccepted(v) == 0 < v /\ v < Pct(VolumeLimit)

\* the live source's volume after a volume command
SetSourceVolume(s, v) ==
  IF vcPlayer # NoItem THEN [s EXCEPT ![vcPlayer].vol = SourceVolume(v)] ELSE s

\* history: the volume command fixed v for player p and for the live stream
\* (NoVolume: increase / decrease moved it since)
VolumeSet(h, p, v) ==
  [h EXCEPT !.lastSet[p] = v,
            !.liveSet = IF vcPlayer # NoItem THEN [@ EXCEPT ![vcPlayer] = v] ELSE @]

\* volume <vol>: replies unless connected or when vol is rejected; else
\* get_player, vc.source.volume = vol / 100, player.volume = vol / 100
change_volume(v) ==
  /\ nVol < MaxVolCmds
  /\ IF is_connected /\ VolumeAccepted(v)
     THEN /\ CanGetPlayer
          /\ nVol' = nVol + 1
          /\ players' = get_player
          /\ nPlayers' = NPlayersAfterGet
          /\ mp' = [MpAfterGet EXCEPT ![get_player].volume = v]
          /\ stream' = SetSourceVolume(stream, v)
          /\ hist' = VolumeSet(Issued(hist, get_player), get_player, {v})
     ELSE UNCHANGED <<nVol, players, nPlayers, mp, stream, hist>>
  /\ UNCHANGED <<vcState, vcPlayer, hpc, hplayer, task, nStop>>
  /\ UNCHANGED <<msgs, cmdvars>>

\* increase / decrease: replies unless connected; else get_player,
\* vc.source.volume +-= 0.05, player.volume +-= 0.05
adjust_volume(d) ==
  /\ nVol < MaxVolCmds
  /\ IF is_connected
     THEN /\ CanGetPlayer
          /\ nVol' = nVol + 1
          /\ players' = get_player
          /\ nPlayers' = NPlayersAfterGet
          /\ mp' = [MpAfterGet EXCEPT ![get_player].volume = @ + d]
          /\ stream' = IF vcPlayer # NoItem
                       THEN SetSourceVolume(stream, stream[vcPlayer].vol + d)
                       ELSE stream
          /\ hist' = VolumeSet(Issued(hist, get_player), get_player, NoVolume)
     ELSE UNCHANGED <<nVol, players, nPlayers, mp, stream, hist>>
  /\ UNCHANGED <<vcState, vcPlayer, hpc, hplayer, task, nStop>>
  /\ UNCHANGED <<msgs, cmdvars>>

increase_volume == adjust_volume(Pct(VolumeStep))

decrease_volume == adjust_volume(-Pct(VolumeStep))

\* ------------------------------------------- connect, queue, nowplaying
\* history: a command answered "I am not connected to voice"
Refused(h) == [h EXCEPT !.refused = TRUE]

\* the connect command: with a voice client on the channel it returns; when
\* the author is in no voice channel it replies; else channel.connect() starts
connect_(inVoice) ==
  /\ cpc = "idle"
  /\ nConn < MaxConnects
  /\ IF vcState = "none" /\ inVoice
     THEN /\ vcState' = "connecting"
          /\ cpc' = "connecting"
          /\ nConn' = nConn + 1
     ELSE UNCHANGED <<vcState, cpc, nConn>>
  /\ UNCHANGED <<players, nPlayers, mp, vcPlayer, stream, hpc, hplayer, task,
                 nVol, nStop, msgs, npc, nNp, nQuery, hist>>

\* channel.connect() returned and the "Connected to" send ends the command,
\* or it timed out: the voice client is dropped, VoiceConnectionError
connectDone(ok) ==
  /\ cpc = "connecting"
  /\ vcState' = IF ok THEN "connected" ELSE "none"
  /\ cpc' = "idle"
  /\ UNCHANGED <<players, nPlayers, mp, vcPlayer, stream, hpc, hplayer, task,
                 nVol, nStop, msgs, npc, nNp, nConn, nQuery, hist>>

\* mutant: the whole queue is listed
UpcomingAll(q) == q

\* itertools.islice(player.queue._queue, 0, 5): the first five entries, in
\* queue order
Upcoming(q) == SubSeq(q, 1, IF Len(q) < QueueWindow THEN Len(q) ELSE QueueWindow)

\* history: the entries the queue command listed (none for an empty queue)
Listed(h, q) == [h EXCEPT !.listed = Upcoming(q)]

\* the queue command: refused without a connected voice client; else
\* get_player, then the reply for an empty queue or the embed of Upcoming
queue_info ==
  /\ nQuery < MaxQueries
  /\ IF ~is_connected
     THEN /\ hist' = Refused(hist)
          /\ UNCHANGED <<players, nPlayers, mp, nQuery>>
     ELSE /\ CanGetPlayer
          /\ players' = get_player
          /\ nPlayers' = NPlayersAfterGet
          /\ mp' = MpAfterGet
          /\ hist' = Listed(Issued(hist, get_player), MpAfterGet[get_player].queue)
          /\ nQuery' = nQuery + 1
  /\ UNCHANGED <<vcState, vcPlayer, stream, hpc, hplayer, task, nVol, nStop,
                 msgs, npc, nNp, cpc, nConn>>

\* the message a nowplaying command posts: not one of the loop's
NewMsg == MaxPlays + nNp

\* the nowplaying command up to its first suspension: refused without a
\* connected voice client; else get_player; with no current it replies;
\* player.np None ends it (AttributeError); else player.np.delete() is awaited
now_playing_ ==
  /\ npc.pc = "idle"
  /\ nNp < MaxNowPlaying
  /\ IF ~is_connected
     THEN /\ hist' = Refused(hist)
          /\ UNCHANGED <<players, nPlayers, mp, msgs, npc, nNp>>
     ELSE /\ CanGetPlayer
          /\ players' = get_player
          /\ nPlayers' = NPlayersAfterGet
          /\ mp' = MpAfterGet
          /\ hist' = Issued(hist, get_player)
          /\ nNp' = nNp + 1
          /\ LET m == MpAfterGet[get_player] IN
             IF m.current = NoItem \/ m.np = NoItem
             THEN UNCHANGED <<msgs, npc>>
             ELSE /\ msgs' = DeleteMsg(msgs, m.np)
                  /\ npc' = [pc |-> "deleting", player |-> get_player, vc |-> TRUE]
  /\ UNCHANGED <<vcState, vcPlayer, stream, hpc, hplayer, task, nVol, nStop,
                 cpc, nConn, nQuery>>

\* player.np.delete() returned or raised HTTPException (passed): the text
\* is formatted from vc.source, which is None once the voice client the
\* command holds was stopped or disconnected (AttributeError ends the
\* command), and ctx.send is awaited
npDeleted ==
  /\ npc.pc = "deleting"
  /\ npc' = IF npc.vc /\ vcPlayer # NoItem
            THEN [npc EXCEPT !.pc = "sending"]
            ELSE NoCommand
  /\ UNCHANGED <<players, nPlayers, mp, vcState, vcPlayer, stream, hpc, hplayer,
                 task, nVol, nStop, msgs, nNp, cpc, nConn, nQuery, hist>>

\* ctx.send returned the new message and it is stored in player.np, or the
\* send raised and the command ends
npSent(ok) ==
  /\ npc.pc = "sending"
  /\ npc' = NoCommand
  /\ msgs' = IF ok THEN PostMsg(msgs, NewMsg, npc.player) ELSE msgs
  /\ mp' = IF ok THEN [mp EXCEPT ![npc.player].np = NewMsg] ELSE mp
  /\ UNCHANGED <<players, nPlayers, vcState, vcPlayer, stream, hpc, hplayer,
                 task, nVol, nStop, nNp, cpc, nConn, nQuery, hist>>

\* --------------------------------------- the queue against the queue command
\* a guild in use: connected, its player registered by a play command and
\* its loop suspended in queue.get() on the empty queue
QueueInit ==
  /\ players = 1
  /\ nPlayers = 1
  /\ mp = [p \in Players |-> IF p = 1 THEN LoopTop(MusicPlayer) ELSE Unborn]
  /\ vcState = "connected"
  /\ vcPlayer = NoItem
  /\ stream = [i \in Items |-> NoStream]
  /\ hpc = [h \in Items |-> "idle"]
  /\ hplayer = [h \in Items |-> NoPlayer]
  /\ task = [p \in Players |-> "none"]
  /\ nVol = 0
  /\ nStop = 0
  /\ msgs = {}
  /\ npc = NoCommand
  /\ nNp = 0
  /\ cpc = "idle"
  /\ nConn = 0
  /\ nQuery = 0
  /\ hist = Issued(NoHistory, 1)

\* line 282 alone: a play command puts its entry on the queue of the
\* registered player; the entries are numbered in the order they are put
queuePut(i) ==
  /\ players # NoPlayer
  /\ i = Len(hist.put[players]) + 1
  /\ mp' = [mp EXCEPT ![players].queue = QueuePut(@, i)]
  /\ hist' = [hist EXCEPT !.put[players] = Append(@, i)]
  /\ UNCHANGED <<players, nPlayers, vcState, vcPlayer, stream, hpc, hplayer,
                 task, nVol, nStop, msgs, cmdvars>>

\* line 134 alone: queue.get() of the registered player's loop returns the
\* entry at the head
queueGet ==
  /\ players # NoPlayer
  /\ mp[players].queue # <<>>
  /\ mp' = [mp EXCEPT ![players].queue = QueueRest(@)]
  /\ hist' = [hist EXCEPT !.got = Append(@, QueueGet(mp[players].queue))]
  /\ UNCHANGED <<players, nPlayers, vcState, vcPlayer, stream, hpc, hplayer,
                 task, nVol, nStop, msgs, cmdvars>>

QueueNext ==
  \/ \E i \in QueueItems : queuePut(i)
  \/ queueGet
  \/ queue_info

QueueSpec == QueueInit /\ [][QueueNext]_vars

\* ------------------------------------------------------------------ Next
Next ==
  \/ \E h \in Items, inVoice \in BOOLEAN : play_(h, inVoice)
  \/ \E h \in Items, ok \in BOOLEAN : playNoChannel(h, ok)
  \/ \E h \in Items, ok \in BOOLEAN : playConnected(h, ok)
  \/ \E h \in Items, ok \in BOOLEAN : playGreeted(h, ok)
  \/ \E h \in Items, ok \in BOOLEAN : playCreated(h, ok)
  \/ \E p \in Players : loopStart(p)
  \/ \E p \in Players : loopGet(p)
  \/ \E p \in Players : loopTimeout(p)
  \/ \E p \in Players : loopResolved(p)
  \/ \E p \in Players : loopResolveFailed(p)
  \/ \E p \in Players, ok \in BOOLEAN : loopReported(p, ok)
  \/ \E p \in Players, ok \in BOOLEAN : loopNpSent(p, ok)
  \/ \E p \in Players : loopWake(p)
  \/ \E p \in Players : loopNpDeleted(p)
  \/ \E i \in Items : streamEnds(i)
  \/ \E i \in Items : audioThreadExit(i)
  \/ \E p \in Players : destroyTask(p)
  \/ cleanupFinish
  \/ pause_
  \/ resume_
  \/ skip_
  \/ stop_
  \/ \E v \in VolChoices : change_volume(v)
  \/ increase_volume
  \/ decrease_volume

Spec == Init /\ [][Next]_vars

\* every command of the cog, around the play commands of CmdItems
CmdNext ==
  \/ \E h \in CmdItems, inVoice \in BOOLEAN : play_(h, inVoice)
  \/ \E h \in CmdItems, ok \in BOOLEAN : playNoChannel(h, ok)
  \/ \E h \in CmdItems, ok \in BOOLEAN : playConnected(h, ok)
  \/ \E h \in CmdItems, ok \in BOOLEAN : playGreeted(h, ok)
  \/ \E h \in CmdItems, ok \in BOOLEAN : playCreated(h, ok)
  \/ \E p \in Players : loopStart(p)
  \/ \E p \in Players : loopGet(p)
  \/ \E p \in Players : loopTimeout(p)
  \/ \E p \in Players : loopResolved(p)
  \/ \E p \in Players : loopResolveFailed(p)
  \/ \E p \in Players, ok \in BOOLEAN : loopReported(p, ok)
  \/ \E p \in Players, ok \in BOOLEAN : loopNpSent(p, ok)
  \/ \E p \in Players : loopWake(p)
  \/ \E p \in Players : loopNpDeleted(p)
  \/ \E i \in Items : streamEnds(i)
  \/ \E i \in Items : audioThreadExit(i)
  \/ \E p \in Players : destroyTask(p)
  \/ cleanupFinish
  \/ pause_
  \/ resume_
  \/ skip_
  \/ stop_
  \/ \E v \in VolChoices : change_volume(v)
  \/ increase_volume
  \/ decrease_volume
  \/ \E inVoice \in BOOLEAN : connect_(inVoice)
  \/ \E ok \in BOOLEAN : connectDone(ok)
  \/ queue_info
  \/ now_playing_
  \/ npDeleted
  \/ \E ok \in BOOLEAN : npSent(ok)

CmdSpec == Init /\ [][CmdNext]_vars

\* play and nowplaying commands only: the player loop against now_playing_
NpNext ==
  \/ \E h \in Items, inVoice \in BOOLEAN : play_(h, inVoice)
  \/ \E h \in Items, ok \in BOOLEAN : playNoChannel(h, ok)
  \/ \E h \in Items, ok \in BOOLEAN : playConnected(h, ok)
  \/ \E h \in Items, ok \in BOOLEAN : playGreeted(h, ok)
  \/ \E h \in Items, ok \in BOOLEAN : playCreated(h, ok)
  \/ \E p \in Players : loopStart(p)
  \/ \E p \in Players : loopGet(p)
  \/ \E p \in Players : loopResolved(p)
  \/ \E p \in Players : loopResolveFailed(p)
  \/ \E p \in Players, ok \in BOOLEAN : loopReported(p, ok)
  \/ \E p \in Players, ok \in BOOLEAN : loopNpSent(p, ok)
  \/ \E p \in Players : loopWake(p)
  \/ \E p \in Players : loopNpDeleted(p)
  \/ \E i \in Items : streamEnds(i)
  \/ \E i \in Items : audioThreadExit(i)
  \/ now_playing_
  \/ npDeleted
  \/ \E ok \in BOOLEAN : npSent(ok)

NpSpec == Init /\ [][NpNext]_vars

\* the event loop runs every task it was given, and the gateway answers a
\* disconnect: the cleanup task of destroy() starts and cleanup resumes
FairSpec ==
  /\ Spec
  /\ WF_vars(\E p \in Players : destroyTask(p))
  /\ WF_vars(cleanupFinish)

TypeOK ==
  /\ players \in 0..MaxPlayers
  /\ nPlayers \in 0..MaxPlayers
  /\ vcState \in {"none", "connecting", "connected", "closing"}
  /\ vcPlayer \in 0..MaxPlays
  /\ \A p \in Players : mp[p].pc \in {"none", "start", "get", "resolving",
        "reporting", "npsend", "wait", "npdel", "done", "dead"}

\* ================================================================ claims
IsPrefix(a, b) == Len(a) <= Len(b) /\ \A k \in 1..Len(a) : a[k] = b[k]

Unfailed(q) == SelectSeq(q, LAMBDA i : i \notin hist.failed)

\* the loop of p has been created and has neither returned nor died
LoopLive(p) == mp[p].pc \notin {"none", "done", "dead"}

\* C1: in every player the tracks that started streaming are, in order, the
\* items put on its queue without those whose resolution failed (a prefix of
\* them while later ones are still queued), and none started twice.
C1_FifoStart ==
  \A p \in Players :
    /\ IsPrefix(hist.started[p], Unfailed(hist.put[p]))
    /\ \A j, k \in 1..Len(hist.started[p]) :
         hist.started[p][j] = hist.started[p][k] => j = k

\* two tracks put by two play commands have started in one player
C1_Witness ==
  \E p \in Players : Len(hist.started[p]) >= 2 /\ Len(hist.put[p]) >= 2

\* C2: all get_player calls made between two deletions of the registry entry
\* return one and the same MusicPlayer, at most one MusicPlayer is constructed
\* per such period, and every MusicPlayer has exactly one player_loop.
C2_OnePlayerPerEpoch ==
  /\ \A a, b \in hist.issued : a[1] = b[1] => a[2] = b[2]
  /\ nPlayers <= hist.epoch + 1
  /\ \A p \in Players : (mp[p].pc # "none") <=> (p <= nPlayers)

\* two play commands are suspended in create_source holding the same player,
\* both obtained while the registry had never lost an entry
C2_Witness ==
  /\ hist.epoch = 0
  /\ \E g, h \in Items :
       /\ g # h
       /\ hpc[g] = "creating" /\ hpc[h] = "creating"
       /\ hplayer[g] # NoPlayer /\ hplayer[g] = hplayer[h]

\* C3 (as claimed): at most one player of the guild has a loop that has not
\* terminated.
C3_OneLiveLoop ==
  Cardinality({p \in Players : LoopLive(p)}) <= 1

\* C4: a loop that timed out never runs again and makes one cleanup task; that
\* task is never made again, it finishes, and when it finishes the registry
\* has no entry for the guild and the voice client is not connected.
C4_TimeoutDestroys ==
  /\ [](\A p \in Players : task[p] # "none" => mp[p].pc = "done")
  /\ [][\A p \in Players :
          /\ task[p] # "none" => task'[p] # "none"
          /\ task[p] \in {"closing", "done"} => task'[p] # "pending"
          /\ (task[p] # "done" /\ task'[p] = "done")
               => players' = NoPlayer /\ vcState' # "connected"]_vars
  /\ \A p \in Players : (task[p] = "pending") ~> (task[p] = "done")

\* the cleanup of a timed-out loop disconnected a connected voice client and
\* finished
C4_Witness ==
  \E p \in Players :
    /\ task[p] = "done" /\ mp[p].pc = "done"
    /\ players = NoPlayer /\ vcState = "none"
    /\ hist.started[p] # <<>>

\* C5 (as claimed): when the resolution of the dequeued item failed, the loop
\* next is back at the top (waiting for an item or resolving the next one),
\* and the step neither unregisters the player nor makes a cleanup task.
C5_ResolveFailureContinues ==
  [][\A p \in Players :
       (mp[p].pc = "reporting" /\ mp'[p].pc # "reporting")
         => /\ mp'[p].pc \in {"get", "resolving"}
            /\ players' = players
            /\ task' = task]_vars

\* C6 (as claimed): no loop is ever ended by an exception; a loop ends only
\* by returning after the inactivity timeout.
C6_LoopNeverDies ==
  \A p \in Players : mp[p].pc # "dead"

\* C7: when the cleanup awaited by stop finishes, the voice client is gone and
\* the registry has no entry; a play command that then constructs a player
\* gets one never used before, registered, with an empty queue, no current
\* track, no now-playing message and volume 0.5.
C7_StopThenFreshPlayer ==
  [][/\ (vcState = "closing" /\ vcState' # "closing")
          => vcState' = "none" /\ players' = NoPlayer
     /\ \A h \in Items :
          (hplayer'[h] # hplayer[h] /\ nPlayers' # nPlayers)
            => /\ nPlayers' = nPlayers + 1
               /\ hplayer'[h] = nPlayers'
               /\ players' = nPlayers'
               /\ mp[nPlayers'].pc = "none"
               /\ mp'[nPlayers'].queue = <<>>
               /\ mp'[nPlayers'].current = NoItem
               /\ mp'[nPlayers'].np = NoItem
               /\ mp'[nPlayers'].volume = Pct(InitVolume)
               /\ mp'[nPlayers'].pc = "start"]_vars

\* stop ran while a track was playing, its cleanup finished, and a later play
\* command holds a second player
C7_Witness ==
  /\ hist.stopMid /\ nStop >= 1 /\ hist.epoch >= 1
  /\ nPlayers = 2 /\ players = 2
  /\ \E h \in Items : hplayer[h] = 2 /\ hpc[h] = "creating"

\* C8 (as claimed): no item that was in the queue of a player when the
\* registry lost that player is ever handed to regather_stream.
C8_DiscardedNeverResolved ==
  hist.discarded \cap hist.resolved = {}

\* C9: a volume command with an accepted percentage v leaves the stream and
\* the loops where they are, sets the live source and the player to v, and a
\* track that the player starts while v stands starts at v.
C9_VolumeApplied ==
  /\ [](/\ \A p \in Players :
             \A v \in hist.lastSet[p] : mp[p].volume = v
        /\ \A i \in Items :
             \A v \in hist.liveSet[i] :
               stream[i].st # "none" => stream[i].vol = v)
  /\ [][nVol' # nVol
          => /\ vcPlayer' = vcPlayer /\ vcState' = vcState
             /\ \A i \in Items : stream'[i].st = stream[i].st
             /\ \A p \in Players :
                  mp'[p].pc = mp[p].pc \/ (mp[p].pc = "none" /\ p = players')
             /\ \A p \in Players : mp'[p].current = mp[p].current]_vars

\* the volume was set to 70 while one track was playing (it has since
\* finished) and the next track of the same player is playing at 70
C9_Witness ==
  \E i, j \in Items :
    /\ i # j
    /\ hist.liveSet[i] = {Pct(70)} /\ stream[i].st = "finished"
    /\ stream[j].st = "playing" /\ stream[j].vol = Pct(70)
    /\ stream[i].owner = stream[j].owner
    /\ hist.started[stream[i].owner] = <<i, j>>

\* C10 (as claimed): the loop that played a skipped track goes on: it does
\* not stay terminated with the skipped track still its current.
C10_SkipEndsWait ==
  \A i \in hist.skipped :
    ~(mp[stream[i].owner].pc = "dead" /\ mp[stream[i].owner].current = i)

\* C14 (as claimed): a player is torn down once; the destroy task of a player
\* the registry has already lost never disconnects the voice client or deletes
\* the registry entry again, so it never takes down a later player.
C14_TornDownOnce == hist.wrecked = {}

\* C11 (as claimed): the volume command takes effect only for a percentage
\* in (0, 100]; any other value leaves the stored volume as it was.
C11_OutOfRangeRejected ==
  \A p \in Players : \A v \in hist.lastSet[p] : 0 < v /\ v <= Pct(100)
\* the voice client has an AudioPlayer that is playing or paused
ActiveStream == is_playing \/ is_paused

\* C15 (as claimed): the registered player's current is non-null exactly when
\* the voice client reports an active (playing or paused) stream.
C15_CurrentIffActive ==
  players # NoPlayer => ((mp[players].current # NoItem) <=> ActiveStream)

\* C15 (amended): while the voice client reports an active stream, the
\* current of the player whose loop started it is that stream.
C15_ActiveIsCurrent ==
  ActiveStream => mp[stream[vcPlayer].owner].current = vcPlayer

\* a paused stream is the current of the registered player
C15_Witness ==
  /\ is_paused
  /\ players # NoPlayer
  /\ stream[vcPlayer].owner = players
  /\ mp[players].current = vcPlayer

\* C17: every item still on a queue is unresolved (no regather call, no
\* stream), and every track that started streaming was resolved by exactly one
\* regather call, made after it left the queue.
C17_ResolvedAtDequeue ==
  /\ \A p \in Players : \A i \in Range(mp[p].queue) :
        hist.calls[i] = 0 /\ stream[i].st = "none"
  /\ \A p \in Players : \A i \in Range(hist.started[p]) : hist.calls[i] = 1
  /\ \A i \in Items : stream[i].st # "none" => hist.calls[i] = 1

\* one track of a player has started while a later item waits on its queue
C17_Witness ==
  \E p \in Players : Len(hist.started[p]) >= 1 /\ mp[p].queue # <<>>

\* C18 (as claimed): no resolved stream of a destroyed player is left
\* unreleased: once the player is out of the registry and its loop has ended,
\* source cleanup has been called on every stream created for it.
C18_DestroyedStreamsReleased ==
  \A i \in Items :
    (/\ stream[i].st # "none"
     /\ stream[i].owner \in hist.destroyed
     /\ mp[stream[i].owner].pc \in {"done", "dead"})
    => stream[i].released

\* C19 (as claimed): the stored volume of every player and the volume of
\* every stream are greater than 0 and at most 100 %.
C19_VolumeInRange ==
  /\ \A p \in Players :
        mp[p].pc # "none" => 0 < mp[p].volume /\ mp[p].volume <= Pct(100)
  /\ \A i \in Items :
        stream[i].st # "none" => 0 < stream[i].vol /\ stream[i].vol <= Pct(100)

\* C20: the event a loop waits on is set only by the end of the stream it is
\* waiting for; an end signalled while the now-playing message is being sent is
\* still there when the loop starts waiting; and between two tracks the event
\* is clear.
C20_SignalMatchesTrack ==
  \A p \in Players :
    /\ mp[p].pc \in {"npsend", "wait"} =>
          (mp[p].next <=> stream[mp[p].source].st = "finished")
    /\ mp[p].pc \in {"get", "resolving", "reporting"} => ~mp[p].next

\* the second track of a player is streaming and its loop waits for it
C20_Witness ==
  \E p \in Players :
    /\ Len(hist.started[p]) >= 2
    /\ mp[p].pc = "wait"
    /\ ~mp[p].next
    /\ stream[mp[p].source].st = "playing"

\* C16 (as claimed): every outstanding now-playing message of a player is the
\* one its stored handle names, so at most one is outstanding and none is
\* left undeleted behind an overwritten handle.
C16_OneNowPlaying ==
  \A m \in msgs : mp[m[2]].np = m[1]

\* a step of one of the nine commands that need a voice connection
NeedsVoiceStep ==
  \/ pause_
  \/ resume_
  \/ skip_
  \/ stop_
  \/ \E v \in VolChoices : change_volume(v)
  \/ increase_volume
  \/ decrease_volume
  \/ queue_info
  \/ now_playing_

\* nothing but the record of the refusal changes
OnlyRefused ==
  /\ UNCHANGED <<players, nPlayers, mp, vcState, vcPlayer, stream, hpc, hplayer,
                 task, nVol, nStop, msgs, npc, nNp, cpc, nConn, nQuery>>
  /\ hist' = [hist EXCEPT !.refused = hist'.refused]

\* C12: without an established voice connection a step of pause, resume,
\* skip, queue, nowplaying, volume, increase, decrease or stop changes no
\* state (no registry entry, loop, volume, stream or message); and the
\* connection becomes established only in a step of play or connect.
C12_RefusedWithoutVoice ==
  [][/\ (vcState # "connected" /\ NeedsVoiceStep) => OnlyRefused
     /\ (vcState # "connected" /\ vcState' = "connected") =>
          \/ \E h \in Items : playConnected(h, TRUE)
          \/ connectDone(TRUE)]_vars

\* a queue or nowplaying command was refused, and the guild is not connected
\* while a player is registered
C12_Witness ==
  /\ hist.refused
  /\ vcState # "connected"
  /\ players # NoPlayer

\* C13: the queue command lists the first min(5, length) entries of the
\* queue in queue order and leaves the queue as it was; and with gets and
\* puts interleaved, the entries got followed by the entries still queued are
\* always the entries put, in order: none lost, none got twice.
C13_QueueListing ==
  /\ [](players # NoPlayer => hist.put[players] = hist.got \o mp[players].queue)
  /\ [][nQuery' # nQuery =>
          LET q == mp[players].queue
              l == hist'.listed IN
          /\ mp' = mp
          /\ Len(l) = (IF Len(q) < QueueWindow THEN Len(q) ELSE QueueWindow)
          /\ \A k \in 1..Len(l) : l[k] = q[k]]_vars

\* the command listed five entries of a longer queue from which the loop
\* has taken entries
C13_Witness ==
  /\ nQuery > 0
  /\ Len(hist.listed) = QueueWindow
  /\ Len(mp[players].queue) > QueueWindow
  /\ hist.got # <<>>

\* C21 (as claimed): every item put on the queue of a registered player is
\* dequeued by its loop unless the player is destroyed first, so no registered
\* player holds queued items while its loop has ended for good.
C21_QueuedIsConsumed ==
  players # NoPlayer /\ mp[players].queue # <<>> => mp[players].pc # "dead"

====
